---- MODULE Spec2Model ----
(***************************************************************************)
(* Model of rpa_banco.py: a one-shot script that reconciles a list of      *)
(* tables from a source PostgreSQL database (DB2, conn_2) into a           *)
(* destination database (DB1, conn_1).  Per table it compares a content    *)
(* hash of both sides and, when they differ, reads every source row and    *)
(* upserts it into the destination inside one transaction.                 *)
(*                                                                         *)
(* The two databases are modelled by what the script can observe of them:  *)
(* the catalog of each table (does it exist, its ordered columns, its      *)
(* primary key, a value constraint on column b), its rows in physical      *)
(* order, and the transaction status of each psycopg2 connection           *)
(* (autocommit is off: a failed statement leaves the transaction aborted   *)
(* until rollback, and writes are visible to others only after commit).    *)
(***************************************************************************)
EXTENDS Integers, Sequences, FiniteSets, TLC

\* ---------------------------------------------------------------- bounds
\* rows held by the source and the destination table together, initially
MaxRows == 3
\* number of times the script is started
MaxRuns == 2
\* rows held by all tables of a two-table list together, initially
MaxRowsMulti == 2
\* number of times the script is started in the scenario of repeated runs
ScenarioRuns == 4
\* rows the source table of the scenario holds at most
ScenarioRows == 2
\* rows each side holds at most where the hashes of both sides are compared
HashRows == 2

\* the value of a column that an INSERT does not list (no default)
NULL == 0

TableNames == {"t1", "t2"}
\* cell values
Values == {1, 2}

\* the hash of an empty or unreadable table, and an empty fetch
None == <<>>

VARIABLES
    sync_tables_raw,    \* the environment variable SYNC_TABLES
    sync_tables,        \* the table list parsed from it
    srcCat,             \* source catalog: table -> [exists, cols]
    dstCat,             \* destination catalog: table -> [exists, cols, pk, bmax]
    srcRows,            \* source rows, physical order: table -> Seq(tuple)
    dstRows,            \* committed destination rows: table -> Seq(tuple)
    txRows,             \* destination rows as conn_1's open transaction sees them
    tx1,                \* status of conn_1 (destination) and its transaction
    tx2,                \* status of conn_2 (source) and its transaction
    pc,                 \* position of the script
    k,                  \* index into sync_tables of the table being processed
    hashes_db2_origem,  \* table -> hash on the source
    hashes_db1_destino, \* table -> hash on the destination
    data,               \* rows fetched by _get_data
    columns,            \* columns reported by cursor.description
    pk_column,          \* primary-key column found by _insert_data
    i,                  \* index of the next row of data to upsert
    report,             \* table -> the line the main loop printed for it
    errlog,             \* tables for which _insert_data printed ERRO
    stmts1,             \* table -> kinds of statement issued on conn_1
    stmts2,             \* table -> kinds of statement issued on conn_2
    sentCols,           \* table -> column list of the INSERT statements issued
    raised,             \* table -> the statements issued for it that raised
    nread,              \* table -> number of rows _get_data returned, -1 before
    commits,            \* the <<run, table>> pairs whose batch was committed
    dst0,               \* committed destination rows when the run started
    run                 \* number of the current run

vars == <<sync_tables_raw, sync_tables, srcCat, dstCat, srcRows, dstRows, txRows, tx1,
          tx2, pc, k,
          hashes_db2_origem, hashes_db1_destino, data, columns, pk_column, i, report,
          errlog, stmts1, stmts2, raised, sentCols, nread, commits, dst0, run>>

\* ------------------------------------------------------- sequence helpers
Range(s) == {s[n] : n \in 1 .. Len(s)}

HasCol(cols, c) == \E n \in 1 .. Len(cols) : cols[n] = c

ColIndex(cols, c) == CHOOSE n \in 1 .. Len(cols) : cols[n] = c

SeqsUpTo(S, n) == UNION {[1 .. m -> S] : m \in 0 .. n}

\* ------------------------------------------------------------ SYNC_TABLES
\* The environment variable is unset, or a text: a sequence of characters,
\* a table name standing for the characters that spell it.
Unset == [set |-> FALSE, text |-> <<>>]

Text(chars) == [set |-> TRUE, text |-> chars]

\* "not sync_tables_raw": None and the empty string
IsFalsy(raw) == ~raw.set \/ raw.text = <<>>

\* str.split(","): the pieces between the commas, empty pieces included
RECURSIVE SplitComma(_)
SplitComma(chars) ==
    IF \A n \in 1 .. Len(chars) : chars[n] # ","
    THEN <<chars>>
    ELSE LET at == CHOOSE n \in 1 .. Len(chars) :
                      chars[n] = "," /\ \A m \in 1 .. n - 1 : chars[m] # ","
         IN  <<SubSeq(chars, 1, at - 1)>> \o SplitComma(SubSeq(chars, at + 1, Len(chars)))

\* str.strip(): leading and trailing blanks removed
RECURSIVE Strip(_)
Strip(chars) ==
    IF chars = <<>> THEN <<>>
    ELSE IF Head(chars) = " " THEN Strip(Tail(chars))
    ELSE IF chars[Len(chars)] = " " THEN Strip(SubSeq(chars, 1, Len(chars) - 1))
    ELSE chars

\* line 120: [t.strip() for t in raw.split(",") if t.strip()]; every piece
\* left spells one table name
ParseTables(raw) ==
    LET pieces == SplitComma(raw.text)
        kept == SelectSeq([n \in 1 .. Len(pieces) |-> Strip(pieces[n])],
                          LAMBDA piece : piece # <<>>)
    IN  [n \in 1 .. Len(kept) |-> kept[n][1]]

\* mutant: the dictionary keeps one entry per occurrence
KeysRepeated(tables) == tables

\* The keys of the dictionary _get_db_hashes builds from the list: each
\* name once, in the order of its first occurrence.
Keys(tables) ==
    SelectSeq([n \in 1 .. Len(tables) |->
                  IF \E m \in 1 .. n - 1 : tables[m] = tables[n] THEN "" ELSE tables[n]],
              LAMBDA name : name # "")

\* ---------------------------------------------------- psycopg2 connection
\* A statement raises when the transaction is already aborted or when the
\* statement itself is in error; autocommit is off, so a successful
\* statement leaves a transaction open and a failed one leaves it aborted.
Raises(tx, inError) == tx = "aborted" \/ inError

AfterExecute(tx, inError) == IF Raises(tx, inError) THEN "aborted" ELSE "intrans"

\* mutant: conn.commit() is left out
CommitNothing(committed, working) == committed

Commit(committed, working) == working

\* mutant: the except block leaves the transaction's writes in place
RollbackKeeps(committed, working) == working

Rollback(committed, working) == committed

\* ------------------------------------------------------- _get_table_hash
\* ORDER BY 1: ascending on the first column, NULLs last.  The server may
\* deliver rows that tie on it in any order; they are taken in the order
\* of the scan, which is any order of the rows.
NotAfter(u, v) == v = NULL \/ (u # NULL /\ u <= v)

InsertSorted(r, s) ==
    LET n == Cardinality({j \in 1 .. Len(s) : NotAfter(s[j][1], r[1])})
    IN  SubSeq(s, 1, n) \o <<r>> \o SubSeq(s, n + 1, Len(s))

RECURSIVE OrderBy1(_)
OrderBy1(rows) ==
    IF rows = <<>> THEN <<>>
    ELSE InsertSorted(rows[Len(rows)], OrderBy1(SubSeq(rows, 1, Len(rows) - 1)))

\* t::text of a row: "(v1,v2,...)", a NULL printed as nothing.
CellText(v) == IF v = NULL THEN <<>> ELSE <<ToString(v)>>

RECURSIVE JoinCells(_)
JoinCells(r) ==
    IF Len(r) = 0 THEN <<>>
    ELSE IF Len(r) = 1 THEN CellText(r[1])
    ELSE CellText(r[1]) \o <<",">> \o JoinCells(Tail(r))

RowText(r) == <<"(">> \o JoinCells(r) \o <<")">>

\* string_agg(t::text, ''): the row texts concatenated with no delimiter;
\* NULL (None) over zero rows.
RECURSIVE StringAgg(_)
StringAgg(rows) ==
    IF rows = <<>> THEN None ELSE RowText(Head(rows)) \o StringAgg(Tail(rows))

\* md5 is taken to be free of collisions: the digest is represented by the
\* text it digests; md5(NULL) is NULL.
Md5(text) == text

\* The value _get_table_hash returns: None when the statement raises
\* (missing table, aborted transaction) or when the table has no row.
GetTableHash(tx, exists, rows) ==
    IF Raises(tx, ~exists) THEN None ELSE Md5(StringAgg(OrderBy1(rows)))

\* ------------------------------------------------------------- _get_data
\* The main loop's query is "SELECT * FROM <table>": every column of the
\* source table, rows in scan order.
SelectStar(cols) == cols

GetData(tx, exists, cols, rows) ==
    IF Raises(tx, ~exists)
    THEN [dados |-> <<>>, colunas |-> <<>>]
    ELSE [dados |-> rows, colunas |-> SelectStar(cols)]

\* ---------------------------------------------------------- _insert_data
\* mutant: the key is assumed to be the first column, no check for None
PkFetchFirstColumn(dcat) == IF dcat.cols = <<>> THEN None ELSE <<dcat.cols[1]>>

\* fetchone() of the primary-key query: None when the table has no primary
\* key (or does not exist), else the first key column.
PkFetch(dcat) == IF dcat.pk = <<>> THEN None ELSE <<dcat.pk[1]>>

\* update_set: the non-key columns of the statement
UpdateSet(cols, pk) == SelectSeq(cols, LAMBDA c : c # pk)

\* The INSERT ... ON CONFLICT (pk) DO UPDATE SET ... statement is in error
\* when it names a column the destination table lacks, when it leaves the
\* key column out (NOT NULL violation), when update_set is empty (syntax
\* error after SET), or when the value of b breaks the destination's
\* constraint on b.
InsertInError(dcat, cols, pk, linha) ==
    \/ \E n \in 1 .. Len(cols) : ~HasCol(dcat.cols, cols[n])
    \/ ~HasCol(cols, pk)
    \/ UpdateSet(cols, pk) = <<>>
    \/ HasCol(cols, "b") /\ linha[ColIndex(cols, "b")] > dcat.bmax

\* The row a successful statement leaves in the table for linha.
InsertedRow(dcols, cols, linha) ==
    [p \in 1 .. Len(dcols) |->
        IF HasCol(cols, dcols[p]) THEN linha[ColIndex(cols, dcols[p])] ELSE NULL]

\* mutant: ON CONFLICT DO NOTHING
UpdatedRowKeepsOld(old, dcols, cols, pk, linha) == old

UpdatedRow(old, dcols, cols, pk, linha) ==
    [p \in 1 .. Len(dcols) |->
        IF HasCol(UpdateSet(cols, pk), dcols[p])
        THEN linha[ColIndex(cols, dcols[p])]
        ELSE old[p]]

Conflicts(rows, dcols, cols, pk, linha) ==
    {j \in 1 .. Len(rows) : rows[j][ColIndex(dcols, pk)] = linha[ColIndex(cols, pk)]}

\* mutant: the table is emptied before the incoming row is inserted
ApplyUpsertReplacing(rows, dcols, cols, pk, linha) ==
    <<InsertedRow(dcols, cols, linha)>>

\* Effect of one successful upsert statement on the table.
ApplyUpsert(rows, dcols, cols, pk, linha) ==
    IF Conflicts(rows, dcols, cols, pk, linha) = {}
    THEN Append(rows, InsertedRow(dcols, cols, linha))
    ELSE [j \in 1 .. Len(rows) |->
            IF j \in Conflicts(rows, dcols, cols, pk, linha)
            THEN UpdatedRow(rows[j], dcols, cols, pk, linha)
            ELSE rows[j]]

\* ------------------------------------------------------------ databases
SrcSchemas == {<<"a", "b">>, <<"a", "b", "c">>, <<"a">>}

DstSchemas == {<<"a", "b">>, <<"a", "b", "d">>, <<"d">>}

Tuples(cols) == [1 .. Len(cols) -> Values]

MissingSrc == [exists |-> FALSE, cols |-> <<>>]

MissingDst == [exists |-> FALSE, cols |-> <<>>, pk |-> <<>>, bmax |-> 2]

SrcCatalogs == {MissingSrc} \cup {[exists |-> TRUE, cols |-> c] : c \in SrcSchemas}

\* A destination table has no primary key or its first column as key; its
\* column b accepts values up to bmax.
DstCatalogs ==
    {MissingDst} \cup
    UNION { {[exists |-> TRUE, cols |-> c, pk |-> p, bmax |-> m] :
                p \in {<<>>, <<c[1]>>}, m \in Values} :
            c \in DstSchemas }

\* Rows a destination table can hold: the key is unique, b is within bmax.
ValidDstRows(cat, rows) ==
    /\ cat.pk # <<>> =>
          \A m, n \in 1 .. Len(rows) : rows[m][1] = rows[n][1] => m = n
    /\ HasCol(cat.cols, "b") =>
          \A n \in 1 .. Len(rows) : rows[n][ColIndex(cat.cols, "b")] <= cat.bmax

\* the contents of exactly m rows a table can hold
SrcContents(sc, m) ==
    IF sc.exists THEN [1 .. m -> Tuples(sc.cols)] ELSE {r \in {<<>>} : m = 0}

DstContents(dc, m) ==
    IF dc.exists
    THEN {r \in [1 .. m -> Tuples(dc.cols)] : ValidDstRows(dc, r)}
    ELSE {r \in {<<>>} : m = 0}

\* the ways to split at most n rows between the source and the destination
Splits(n) == {x \in (0 .. n) \X (0 .. n) : x[1] + x[2] <= n}

NoTable == [sc |-> MissingSrc, sr |-> <<>>, dc |-> MissingDst, dr |-> <<>>]

\* The state in which the script starts run number r on databases db
\* (table -> [sc, sr, dc, dr]) with SYNC_TABLES set to raw.
Start(raw, db, r) ==
    /\ sync_tables_raw = raw
    /\ sync_tables = <<>>
    /\ srcCat = [t \in TableNames |-> db[t].sc]
    /\ dstCat = [t \in TableNames |-> db[t].dc]
    /\ srcRows = [t \in TableNames |-> db[t].sr]
    /\ dstRows = [t \in TableNames |-> db[t].dr]
    /\ txRows = [t \in TableNames |-> db[t].dr]
    /\ dst0 = [t \in TableNames |-> db[t].dr]
    /\ tx1 = "unopened"
    /\ tx2 = "unopened"
    /\ pc = "connect1"
    /\ k = 1
    /\ hashes_db2_origem = [t \in TableNames |-> None]
    /\ hashes_db1_destino = [t \in TableNames |-> None]
    /\ data = <<>>
    /\ columns = <<>>
    /\ pk_column = ""
    /\ i = 1
    /\ report = [t \in TableNames |-> "none"]
    /\ errlog = {}
    /\ stmts1 = [t \in TableNames |-> {}]
    /\ stmts2 = [t \in TableNames |-> {}]
    /\ raised = [t \in TableNames |-> {}]
    /\ sentCols = [t \in TableNames |-> <<>>]
    /\ nread = [t \in TableNames |-> -1]
    /\ commits = {}
    /\ run = r

\* SYNC_TABLES unset, "", " " and " t1 ,"
OneTableConfigs ==
    {Unset, Text(<<>>), Text(<<" ">>), Text(<<" ", "t1", " ", ",">>)}

\* SYNC_TABLES "t1,t2" and "t1,t1,t2"
TwoTableConfigs == {Text(<<"t1", ",", "t2">>), Text(<<"t1", ",", "t1", ",", "t2">>)}

\* One configured table with any content on both sides; databases without
\* table when SYNC_TABLES names none.
Init ==
    \E raw \in OneTableConfigs :
        IF IsFalsy(raw) \/ ParseTables(raw) = <<>>
        THEN Start(raw, [t \in TableNames |-> NoTable], 1)
        ELSE \E sc \in SrcCatalogs, dc \in DstCatalogs, split \in Splits(MaxRows) :
                \E sr \in SrcContents(sc, split[1]), dr \in DstContents(dc, split[2]) :
                    Start(raw,
                          [t \in TableNames |->
                              IF t = "t1"
                              THEN [sc |-> sc, sr |-> sr, dc |-> dc, dr |-> dr]
                              ELSE NoTable],
                          1)

\* Two configured tables, each missing or present with columns (a, b) on
\* either side, the destination keyed by a or without key.
MultiSrcCatalogs == {c \in SrcCatalogs : c.cols \in {<<>>, <<"a", "b">>}}

MultiDstCatalogs == {c \in DstCatalogs : c.cols \in {<<>>, <<"a", "b">>}}

MultiSplits(n) ==
    {x \in (0 .. n) \X (0 .. n) \X (0 .. n) \X (0 .. n) : x[1] + x[2] + x[3] + x[4] <= n}

InitMulti ==
    \E raw \in TwoTableConfigs, sc1 \in MultiSrcCatalogs, dc1 \in MultiDstCatalogs,
       sc2 \in MultiSrcCatalogs, dc2 \in MultiDstCatalogs,
       split \in MultiSplits(MaxRowsMulti) :
        \E sr1 \in SrcContents(sc1, split[1]), dr1 \in DstContents(dc1, split[2]),
           sr2 \in SrcContents(sc2, split[3]), dr2 \in DstContents(dc2, split[4]) :
            Start(raw,
                  [t \in TableNames |->
                      IF t = "t1" THEN [sc |-> sc1, sr |-> sr1, dc |-> dc1, dr |-> dr1]
                      ELSE [sc |-> sc2, sr |-> sr2, dc |-> dc2, dr |-> dr2]],
                  1)

\* One configured table with columns (a, b) on both sides, the destination
\* keyed by a or without key, each side holding up to HashRows rows.
InitHash ==
    \E m \in 0 .. HashRows, n \in 0 .. HashRows,
       dc \in {c \in DstCatalogs : c.cols = <<"a", "b">>} :
        \E sr \in SrcContents([exists |-> TRUE, cols |-> <<"a", "b">>], m),
           dr \in DstContents(dc, n) :
            Start(Text(<<" ", "t1", " ", ",">>),
                  [t \in TableNames |->
                      IF t = "t1"
                      THEN [sc |-> [exists |-> TRUE, cols |-> <<"a", "b">>],
                            sr |-> sr, dc |-> dc, dr |-> dr]
                      ELSE NoTable],
                  1)

\* The scenario of repeated runs: table t1 has columns (a, b) on both
\* sides, keyed by a; the source holds rows with distinct keys that the
\* destination accepts, the destination is empty.  It is configured alone
\* or before a table t2 that is empty or missing on either side.
InitScenario ==
    \E raw \in {Text(<<" ", "t1", " ", ",">>), Text(<<"t1", ",", "t2">>)},
       m \in 1 .. ScenarioRows, bmax \in Values,
       sc2 \in MultiSrcCatalogs, dc2 \in MultiDstCatalogs :
        \E sr \in SrcContents([exists |-> TRUE, cols |-> <<"a", "b">>], m) :
            /\ ParseTables(raw) = <<"t1">> => sc2 = MissingSrc /\ dc2 = MissingDst
            /\ \A p, q \in 1 .. m : sr[p][1] = sr[q][1] => p = q
            /\ \A n \in 1 .. m : sr[n][2] <= bmax
            /\ Start(raw,
                     [t \in TableNames |->
                         IF t = "t1"
                         THEN [sc |-> [exists |-> TRUE, cols |-> <<"a", "b">>],
                               sr |-> sr,
                               dc |-> [exists |-> TRUE, cols |-> <<"a", "b">>,
                                       pk |-> <<"a">>, bmax |-> bmax],
                               dr |-> <<>>]
                         ELSE [sc |-> sc2, sr |-> <<>>, dc |-> dc2, dr |-> <<>>]],
                     1)

\* ---------------------------------------------------------------- script
\* lines 98-101: psycopg2.connect for the destination; when it raises the
\* script ends with a traceback
ConnectDest ==
    /\ pc = "connect1"
    /\ \E ok \in BOOLEAN :
          IF ok THEN tx1' = "idle" /\ pc' = "connect2"
          ELSE tx1' = tx1 /\ pc' = "crash"
    /\ UNCHANGED <<sync_tables_raw, sync_tables, srcCat, dstCat, srcRows, dstRows,
                   txRows, tx2, k, hashes_db2_origem, hashes_db1_destino, data,
                   columns, pk_column, i, report, errlog, stmts1, stmts2, raised,
                   sentCols, nread, commits, dst0, run>>

\* lines 111-114: psycopg2.connect for the source
ConnectSource ==
    /\ pc = "connect2"
    /\ \E ok \in BOOLEAN :
          IF ok THEN tx2' = "idle" /\ pc' = "config"
          ELSE tx2' = tx2 /\ pc' = "crash"
    /\ UNCHANGED <<sync_tables_raw, sync_tables, srcCat, dstCat, srcRows, dstRows,
                   txRows, tx1, k, hashes_db2_origem, hashes_db1_destino, data,
                   columns, pk_column, i, report, errlog, stmts1, stmts2, raised,
                   sentCols, nread, commits, dst0, run>>

\* lines 116-125: SYNC_TABLES is read; exit(1) when it is unset or empty,
\* else it is parsed and the try block is entered (with no table in the
\* list both hash dictionaries are empty and the loop body never runs)
ReadConfig ==
    /\ pc = "config"
    /\ IF IsFalsy(sync_tables_raw)
       THEN pc' = "exit1" /\ sync_tables' = sync_tables
       ELSE /\ sync_tables' = ParseTables(sync_tables_raw)
            /\ pc' = IF ParseTables(sync_tables_raw) = <<>> THEN "finally" ELSE "hash2"
    /\ UNCHANGED <<sync_tables_raw, srcCat, dstCat, srcRows, dstRows, txRows, tx1,
                   tx2, k, hashes_db2_origem, hashes_db1_destino, data, columns,
                   pk_column, i, report, errlog, stmts1, stmts2, raised, sentCols,
                   nread, commits, dst0, run>>

\* The table at hand: _get_db_hashes walks the list, the main loop walks
\* the keys of hashes_db2_origem.
Table ==
    IF pc \in {"hash2", "hash1"} THEN sync_tables[k] ELSE Keys(sync_tables)[k]

\* the main loop moves on to the next table, or leaves the try block
NextTable ==
    IF k = Len(Keys(sync_tables))
    THEN pc' = "finally" /\ k' = k
    ELSE pc' = "loop" /\ k' = k + 1

\* the statement kind is recorded for the table when the statement raised
Record(kind, didRaise) ==
    raised' = [raised EXCEPT ![Table] = IF didRaise THEN @ \cup {kind} ELSE @]

\* line 128: _get_db_hashes(conn_2, sync_tables), one table per step
HashSource ==
    /\ pc = "hash2"
    /\ hashes_db2_origem' =
          [hashes_db2_origem EXCEPT
              ![Table] = GetTableHash(tx2, srcCat[Table].exists, srcRows[Table])]
    /\ tx2' = AfterExecute(tx2, ~srcCat[Table].exists)
    /\ stmts2' = [stmts2 EXCEPT ![Table] = @ \cup {"hash"}]
    /\ Record("hash2", Raises(tx2, ~srcCat[Table].exists))
    /\ IF k = Len(sync_tables)
       THEN pc' = "hash1" /\ k' = 1
       ELSE pc' = pc /\ k' = k + 1
    /\ UNCHANGED <<sync_tables_raw, sync_tables,
                   srcCat, dstCat, srcRows, dstRows, txRows, tx1,
                   hashes_db1_destino, data, columns, pk_column, i, report,
                   errlog, stmts1, sentCols, nread, commits, dst0, run>>

\* line 130: _get_db_hashes(conn_1, sync_tables), one table per step
HashDest ==
    /\ pc = "hash1"
    /\ hashes_db1_destino' =
          [hashes_db1_destino EXCEPT
              ![Table] = GetTableHash(tx1, dstCat[Table].exists, txRows[Table])]
    /\ tx1' = AfterExecute(tx1, ~dstCat[Table].exists)
    /\ stmts1' = [stmts1 EXCEPT ![Table] = @ \cup {"hash"}]
    /\ Record("hash1", Raises(tx1, ~dstCat[Table].exists))
    /\ IF k = Len(sync_tables)
       THEN pc' = "loop" /\ k' = 1
       ELSE pc' = pc /\ k' = k + 1
    /\ UNCHANGED <<sync_tables_raw, sync_tables,
                   srcCat, dstCat, srcRows, dstRows, txRows, tx2,
                   hashes_db2_origem, data, columns, pk_column, i, report,
                   errlog, stmts2, sentCols, nread, commits, dst0, run>>

\* mutant: an absent source hash is never taken as equal
HashesDifferOrAbsent(hash2_origem, hash1_destino) ==
    hash2_origem # hash1_destino \/ hash2_origem = None

\* line 138: the comparison that decides whether a table is synchronized
HashesDiffer(hash2_origem, hash1_destino) == hash2_origem # hash1_destino

\* mutant: the emptiness test is dropped
HasRowsAlways(dados) == TRUE

\* line 144: "if data"
HasRows(dados) == dados # <<>>

\* lines 133-138, 150-151: the hashes are equal
UpToDate ==
    /\ pc = "loop"
    /\ ~HashesDiffer(hashes_db2_origem[Table], hashes_db1_destino[Table])
    /\ report' = [report EXCEPT ![Table] = "uptodate"]
    /\ NextTable
    /\ UNCHANGED <<sync_tables_raw, sync_tables,
                   srcCat, dstCat, srcRows, dstRows, txRows, tx1, tx2,
                   hashes_db2_origem, hashes_db1_destino, data, columns, pk_column,
                   i, errlog, stmts1, stmts2, sentCols, raised, nread, commits,
                   dst0, run>>

\* lines 138-149: the hashes differ; _get_data reads the source table and
\* the loop skips the table when nothing came back
ReadSource ==
    /\ pc = "loop"
    /\ HashesDiffer(hashes_db2_origem[Table], hashes_db1_destino[Table])
    /\ LET got == GetData(tx2, srcCat[Table].exists, srcCat[Table].cols, srcRows[Table])
       IN  /\ data' = got.dados
           /\ columns' = got.colunas
           /\ nread' = [nread EXCEPT ![Table] = Len(got.dados)]
           /\ IF HasRows(got.dados)
              THEN report' = report /\ pc' = "pk" /\ k' = k
              ELSE report' = [report EXCEPT ![Table] = "empty"] /\ NextTable
    /\ tx2' = AfterExecute(tx2, ~srcCat[Table].exists)
    /\ stmts2' = [stmts2 EXCEPT ![Table] = @ \cup {"select"}]
    /\ Record("select", Raises(tx2, ~srcCat[Table].exists))
    /\ UNCHANGED <<sync_tables_raw, sync_tables,
                   srcCat, dstCat, srcRows, dstRows, txRows, tx1,
                   hashes_db2_origem, hashes_db1_destino, pk_column, i, errlog,
                   stmts1, sentCols, commits, dst0, run>>

\* mutant: the main loop hands the source connection to _insert_data
InsertConnSource == "conn_2"

\* line 146: the connection the main loop hands to _insert_data
InsertConn == "conn_1"

\* The statement log of connection this after statements of the given
\* kinds were issued for the table at hand on connection conn.
IssuedOn(this, conn, log, kinds) ==
    IF conn = this THEN [log EXCEPT ![Table] = @ \cup kinds] ELSE log

\* lines 61-65 and 147: _insert_data's except block rolls conn_1 back and
\* returns normally, so the loop prints its success line and goes on
ExceptRollback(issued) ==
    /\ txRows' = Rollback(dstRows, txRows)
    /\ tx1' = "idle"
    /\ errlog' = errlog \cup {Table}
    /\ stmts1' = IssuedOn("conn_1", InsertConn, stmts1, issued \cup {"rollback"})
    /\ stmts2' = IssuedOn("conn_2", InsertConn, stmts2, issued \cup {"rollback"})
    /\ report' = [report EXCEPT ![Table] = "synced"]
    /\ NextTable
    /\ UNCHANGED dstRows

\* lines 31-44: the primary-key query of _insert_data
PkLookup ==
    /\ pc = "pk"
    /\ Record("pk", Raises(tx1, FALSE))
    /\ IF Raises(tx1, FALSE) \/ PkFetch(dstCat[Table]) = None
       THEN /\ ExceptRollback({"pk"})
            /\ UNCHANGED <<pk_column, i>>
       ELSE /\ pk_column' = PkFetch(dstCat[Table])[1]
            /\ i' = 1
            /\ tx1' = AfterExecute(tx1, FALSE)
            /\ stmts1' = IssuedOn("conn_1", InsertConn, stmts1, {"pk"})
            /\ stmts2' = IssuedOn("conn_2", InsertConn, stmts2, {"pk"})
            /\ pc' = IF data = <<>> THEN "commit" ELSE "upsert"
            /\ UNCHANGED <<dstRows, txRows, errlog, report, k>>
    /\ UNCHANGED <<sync_tables_raw, sync_tables,
                   srcCat, dstCat, srcRows, tx2, hashes_db2_origem,
                   hashes_db1_destino, data, columns, sentCols, nread, commits,
                   dst0, run>>

\* lines 51-58: one iteration of the row loop
UpsertRow ==
    /\ pc = "upsert"
    /\ sentCols' = [sentCols EXCEPT ![Table] = columns]
    /\ Record("upsert",
              Raises(tx1, InsertInError(dstCat[Table], columns, pk_column, data[i])))
    /\ IF Raises(tx1, InsertInError(dstCat[Table], columns, pk_column, data[i]))
       THEN /\ ExceptRollback({"upsert"})
            /\ i' = i
       ELSE /\ txRows' = [txRows EXCEPT ![Table] =
                    ApplyUpsert(@, dstCat[Table].cols, columns, pk_column, data[i])]
            /\ tx1' = AfterExecute(tx1, FALSE)
            /\ stmts1' = IssuedOn("conn_1", InsertConn, stmts1, {"upsert"})
            /\ stmts2' = IssuedOn("conn_2", InsertConn, stmts2, {"upsert"})
            /\ IF i = Len(data)
               THEN pc' = "commit" /\ i' = i
               ELSE pc' = pc /\ i' = i + 1
            /\ UNCHANGED <<dstRows, errlog, report, k>>
    /\ UNCHANGED <<sync_tables_raw, sync_tables,
                   srcCat, dstCat, srcRows, tx2, hashes_db2_origem,
                   hashes_db1_destino, data, columns, pk_column, nread, commits,
                   dst0, run>>

\* lines 59-60 and 147: conn.commit(), then the loop's success line
CommitBatch ==
    /\ pc = "commit"
    /\ dstRows' = Commit(dstRows, txRows)
    /\ tx1' = "idle"
    /\ stmts1' = IssuedOn("conn_1", InsertConn, stmts1, {"commit"})
    /\ stmts2' = IssuedOn("conn_2", InsertConn, stmts2, {"commit"})
    /\ report' = [report EXCEPT ![Table] = "synced"]
    /\ commits' = commits \cup {<<run, Table>>}
    /\ NextTable
    /\ UNCHANGED <<sync_tables_raw, sync_tables, srcCat, dstCat, srcRows, txRows, tx2,
                   hashes_db2_origem, hashes_db1_destino, data, columns, pk_column,
                   i, errlog, sentCols, raised, nread, dst0, run>>

\* lines 152-156: both connections are closed; what conn_1 had not
\* committed is discarded by the server
Finally ==
    /\ pc = "finally"
    /\ pc' = "done"
    /\ tx1' = "closed"
    /\ tx2' = "closed"
    /\ txRows' = Rollback(dstRows, txRows)
    /\ UNCHANGED <<sync_tables_raw, sync_tables, srcCat, dstCat, srcRows, dstRows, k,
                   hashes_db2_origem, hashes_db1_destino, data, columns, pk_column,
                   i, report, errlog, stmts1, stmts2, sentCols, raised, nread, commits,
                   dst0, run>>

\* the script is started again
Restart ==
    /\ run' = run + 1
    /\ dst0' = dstRows
    /\ sync_tables' = <<>>
    /\ tx1' = "unopened"
    /\ tx2' = "unopened"
    /\ pc' = "connect1"
    /\ k' = 1
    /\ hashes_db2_origem' = [t \in TableNames |-> None]
    /\ hashes_db1_destino' = [t \in TableNames |-> None]
    /\ data' = <<>>
    /\ columns' = <<>>
    /\ pk_column' = ""
    /\ i' = 1
    /\ report' = [t \in TableNames |-> "none"]
    /\ errlog' = {}
    /\ stmts1' = [t \in TableNames |-> {}]
    /\ stmts2' = [t \in TableNames |-> {}]
    /\ raised' = [t \in TableNames |-> {}]
    /\ sentCols' = [t \in TableNames |-> <<>>]
    /\ nread' = [t \in TableNames |-> -1]
    /\ UNCHANGED <<sync_tables_raw, srcCat, dstCat, dstRows, txRows, commits>>

\* the script is started again on the same databases
Rerun ==
    /\ pc = "done"
    /\ run < MaxRuns
    /\ srcRows' = srcRows
    /\ Restart

\* Somebody changes the value of b in one row of the source table t1.
ChangeSourceRow ==
    \E n \in 1 .. Len(srcRows["t1"]), v \in Values :
        /\ v # srcRows["t1"][n][2]
        /\ v <= dstCat["t1"].bmax
        /\ srcRows' = [srcRows EXCEPT !["t1"][n][2] = v]

\* The scenario of repeated runs: the script is started again, after a
\* change to the source between the second and the third run.
RerunScenario ==
    /\ pc = "done"
    /\ run < ScenarioRuns
    /\ IF run = 2 THEN ChangeSourceRow ELSE srcRows' = srcRows
    /\ Restart

Next ==
    \/ ConnectDest
    \/ ConnectSource
    \/ ReadConfig
    \/ HashSource
    \/ HashDest
    \/ UpToDate
    \/ ReadSource
    \/ PkLookup
    \/ UpsertRow
    \/ CommitBatch
    \/ Finally
    \/ Rerun

Spec == Init /\ [][Next]_vars

SpecMulti == InitMulti /\ [][Next]_vars

\* the runs of the scenario
NextScenario ==
    \/ ConnectDest
    \/ ConnectSource
    \/ ReadConfig
    \/ HashSource
    \/ HashDest
    \/ UpToDate
    \/ ReadSource
    \/ PkLookup
    \/ UpsertRow
    \/ CommitBatch
    \/ Finally
    \/ RerunScenario

SpecScenario == InitScenario /\ [][NextScenario]_vars

SpecHash == InitHash /\ [][Next]_vars

\* The script is one thread that runs to its end: a step that can be taken
\* is taken.
FairSpecMulti == SpecMulti /\ WF_vars(Next)

TypeOK ==
    /\ pc \in {"connect1", "connect2", "config", "exit1", "crash", "hash2", "hash1",
               "loop", "pk", "upsert", "commit", "finally", "done"}
    /\ tx1 \in {"unopened", "idle", "intrans", "aborted", "closed"}
    /\ tx2 \in {"unopened", "idle", "intrans", "aborted", "closed"}
    /\ sync_tables \in {<<>>, ParseTables(sync_tables_raw)}
    /\ k \in 1 .. Len(sync_tables) \/ (k = 1 /\ sync_tables = <<>>)
    /\ run \in 1 .. MaxRuns \cup 1 .. ScenarioRuns
    /\ srcRows \in [TableNames -> Seq(Seq(Values))]

\* ---------------------------------------------------------------- claims
Configured == Range(sync_tables)

\* values of the column named c in rows laid out as cols (none when the
\* column is not there)
ColumnValues(cols, rows, c) ==
    IF HasCol(cols, c) THEN {rows[n][ColIndex(cols, c)] : n \in 1 .. Len(rows)} ELSE {}

\* C1: when the primary-key query or a row statement of _insert_data has
\* failed for a table, the destination table holds, both as committed and
\* as conn_1 sees it, exactly the rows it held when the run began.
C1_Atomicity ==
    \A t \in Configured :
        t \in errlog => dstRows[t] = dst0[t] /\ txRows[t] = dst0[t]

\* a batch failed on its second row, after the first row had been applied
\* to a destination table that already held rows
C1_Witness ==
    /\ "t1" \in errlog
    /\ "upsert" \in stmts1["t1"]
    /\ i = 2
    /\ dst0["t1"] # <<>>

\* C5: a destination table without primary key never receives a row
\* statement and never changes, whatever the hashes are.
C5_NoWriteWithoutPk ==
    \A t \in Configured :
        dstCat[t].pk = <<>> =>
            /\ "upsert" \notin stmts1[t]
            /\ "commit" \notin stmts1[t]
            /\ txRows[t] = dst0[t]
            /\ dstRows[t] = dst0[t]

\* the hashes differed, rows were read, and the upsert was refused at the
\* primary-key query of a table that exists without primary key
C5_Witness ==
    /\ dstCat["t1"].exists
    /\ dstCat["t1"].pk = <<>>
    /\ nread["t1"] > 0
    /\ stmts1["t1"] = {"hash", "pk", "rollback"}
    /\ "t1" \in errlog

\* C7: no destination row is deleted: every row the table held when the
\* run began still has a row with its key (the row itself when the table
\* has no key), and is unchanged when its key does not occur in the source.
C7_NoDelete ==
    \A t \in Configured :
        \A n \in 1 .. Len(dst0[t]) :
            LET old == dst0[t][n]
                keyed == dstCat[t].pk # <<>>
                kpos == ColIndex(dstCat[t].cols, dstCat[t].pk[1])
            IN  /\ \E m \in 1 .. Len(dstRows[t]) :
                      IF keyed THEN dstRows[t][m][kpos] = old[kpos]
                      ELSE dstRows[t][m] = old
                /\ \E m \in 1 .. Len(txRows[t]) :
                      IF keyed THEN txRows[t][m][kpos] = old[kpos]
                      ELSE txRows[t][m] = old
                /\ (keyed /\ old[kpos] \notin
                        ColumnValues(srcCat[t].cols, srcRows[t], dstCat[t].pk[1]))
                   => /\ \E m \in 1 .. Len(dstRows[t]) : dstRows[t][m] = old
                      /\ \E m \in 1 .. Len(txRows[t]) : txRows[t][m] = old

\* a batch was committed into a table that held a row whose key is not in
\* the source and a row that the batch changed
C7_Witness ==
    /\ <<run, "t1">> \in commits
    /\ \E n \in 1 .. Len(dst0["t1"]) :
          dst0["t1"][n][1] \notin ColumnValues(srcCat["t1"].cols, srcRows["t1"], "a")
    /\ \E n \in 1 .. Len(dst0["t1"]) :
          \A m \in 1 .. Len(dstRows["t1"]) : dstRows["t1"][m] # dst0["t1"][n]

\* C8: once both hashes of a table are computed and equal (both None
\* included), the only statements issued for the table are the two hash
\* queries, and the table ends reported as up to date.
C8_EqualHashesNoAction ==
    \A t \in Configured :
        (/\ pc \notin {"hash2", "hash1"}
         /\ hashes_db2_origem[t] = hashes_db1_destino[t])
        => /\ stmts2[t] = {"hash"}
           /\ stmts1[t] = {"hash"}
           /\ dstRows[t] = dst0[t]
           /\ (pc \in {"finally", "done"} => report[t] = "uptodate")

\* both hashes are None, for a source table that is empty and a
\* destination table that does not exist, and the table ended up to date
C8_Witness ==
    /\ pc = "done"
    /\ hashes_db2_origem["t1"] = None
    /\ hashes_db1_destino["t1"] = None
    /\ srcCat["t1"].exists
    /\ ~dstCat["t1"].exists
    /\ report["t1"] = "uptodate"

\* C9: when the read of a table returned no row, the table is reported as
\* skipped and nothing but the hash query was issued on conn_1 for it: no
\* primary-key query, upsert, commit or rollback; its rows are unchanged.
C9_EmptyReadSkips ==
    \A t \in Configured :
        nread[t] = 0 =>
            /\ report[t] = "empty"
            /\ stmts1[t] = {"hash"}
            /\ dstRows[t] = dst0[t]
            /\ txRows[t] = dst0[t]

\* the hashes differed because the destination holds rows while the source
\* table is empty, and the run is over
C9_Witness ==
    /\ pc = "done"
    /\ nread["t1"] = 0
    /\ srcCat["t1"].exists
    /\ dst0["t1"] # <<>>
    /\ report["t1"] = "empty"

\* the columns both sides have, in the source's order
CommonColumns(scols, dcols) == SelectSeq(scols, LAMBDA c : HasCol(dcols, c))

\* rows laid out as cols, restricted to the columns onto
Project(cols, rows, onto) ==
    [n \in 1 .. Len(rows) |-> [p \in 1 .. Len(onto) |-> rows[n][ColIndex(cols, onto[p])]]]

Unique(vals) == \A m, n \in 1 .. Len(vals) : vals[m] = vals[n] => m = n

\* The source and the destination table have the same columns in the same
\* order, keyed by the first column with another column beside it; the
\* source keys are unique, the destination accepts every source row and
\* held, when the run began, no key that the source lacks.
Aligned(t) ==
    /\ srcCat[t].exists
    /\ dstCat[t].exists
    /\ srcCat[t].cols = dstCat[t].cols
    /\ dstCat[t].pk = <<dstCat[t].cols[1]>>
    /\ Len(dstCat[t].cols) > 1
    /\ Unique(Project(srcCat[t].cols, srcRows[t], dstCat[t].pk))
    /\ \A n \in 1 .. Len(srcRows[t]) :
          ~InsertInError(dstCat[t], srcCat[t].cols, dstCat[t].pk[1], srcRows[t][n])
    /\ ColumnValues(dstCat[t].cols, dst0[t], dstCat[t].pk[1])
          \subseteq ColumnValues(srcCat[t].cols, srcRows[t], dstCat[t].pk[1])

C3_Convergence ==
    \A t \in Configured :
        LET common == CommonColumns(srcCat[t].cols, dstCat[t].cols)
            src == Project(srcCat[t].cols, srcRows[t], common)
            dst == Project(dstCat[t].cols, dstRows[t], common)
        IN  (/\ <<run, t>> \in commits
             /\ dstCat[t].pk # <<>>
             /\ HasCol(common, dstCat[t].pk[1]))
            => /\ Range(src) = Range(dst)
               /\ GetTableHash("idle", TRUE, src) = GetTableHash("idle", TRUE, dst)

\* C3 amended: after a committed sync the destination holds, for every
\* source key, a row that equals the last source row with that key on the
\* common columns; when moreover the source keys are unique and the
\* destination held no key the source lacks, both sides projected on the
\* common columns hold the same rows and hash to the same digest.
C3_ConvergenceOnSourceKeys ==
    \A t \in Configured :
        LET common == CommonColumns(srcCat[t].cols, dstCat[t].cols)
            src == Project(srcCat[t].cols, srcRows[t], common)
            dst == Project(dstCat[t].cols, dstRows[t], common)
            key == dstCat[t].pk[1]
            skeys == Project(srcCat[t].cols, srcRows[t], <<key>>)
        IN  <<run, t>> \in commits =>
            /\ HasCol(common, key)
            /\ \A n \in 1 .. Len(src) :
                  (\A m \in n + 1 .. Len(src) : skeys[m] # skeys[n])
                  => \E m \in 1 .. Len(dst) : dst[m] = src[n]
            /\ (/\ Unique(skeys)
                /\ ColumnValues(dstCat[t].cols, dst0[t], key)
                      \subseteq ColumnValues(srcCat[t].cols, srcRows[t], key))
               => /\ Range(src) = Range(dst)
                  /\ GetTableHash("idle", TRUE, src) = GetTableHash("idle", TRUE, dst)

\* a batch of two rows was committed over a destination row it had to
\* update, into a table that has a column the source lacks
C3_Witness ==
    /\ <<run, "t1">> \in commits
    /\ Len(srcRows["t1"]) = 2
    /\ Unique(Project(srcCat["t1"].cols, srcRows["t1"], <<"a">>))
    /\ dstCat["t1"].cols = <<"a", "b", "d">>
    /\ dst0["t1"] # <<>>
    /\ dst0["t1"] # dstRows["t1"]
    /\ ColumnValues(dstCat["t1"].cols, dst0["t1"], "a")
          \subseteq ColumnValues(srcCat["t1"].cols, srcRows["t1"], "a")

\* C4 as stated: between a source table (a, b, c) and a destination table
\* (a, b, d) only a and b are read and sent, and d is left as it was on the
\* rows the destination already held.
C4_OnlyCommonColumns ==
    \A t \in Configured :
        (srcCat[t].cols = <<"a", "b", "c">> /\ dstCat[t].cols = <<"a", "b", "d">>)
        => /\ (t = Table /\ nread[t] > 0) => columns = <<"a", "b">>
           /\ sentCols[t] \in {<<>>, <<"a", "b">>}
           /\ \A n \in 1 .. Len(dst0[t]) : dstRows[t][n][3] = dst0[t][n][3]

\* C6 as stated: a table whose upsert failed is reported as failed, and a
\* table is reported as synchronized only when its batch was committed.
C6_FailureReported ==
    \A t \in Configured :
        /\ t \in errlog => report[t] = "failed"
        /\ report[t] = "synced" => <<run, t>> \in commits

Ended == pc \in {"done", "exit1", "crash"}

\* C11 as stated: when SYNC_TABLES is unset or empty no connection is ever
\* opened or attempted, no statement is issued for any table, and the
\* process ends by exit(1).
C11_ExitBeforeConnecting ==
    IsFalsy(sync_tables_raw) =>
        /\ tx1 = "unopened"
        /\ tx2 = "unopened"
        /\ pc \in {"connect1", "exit1"}
        /\ \A t \in TableNames : stmts1[t] = {} /\ stmts2[t] = {}

\* C12 as stated: when the process has ended, on whichever path, each
\* connection is either never opened or closed.
C12_ConnectionsReleased ==
    Ended => tx1 \in {"unopened", "closed"} /\ tx2 \in {"unopened", "closed"}

\* What became of a table in the run, whatever line was printed for it:
\* up to date when the hashes were equal or its batch was committed,
\* skipped when the read returned no row, failed when _insert_data's
\* except block ran.
Outcomes(t) ==
    {o \in {"UpToDate", "Skipped", "Failed"} :
        \/ o = "UpToDate" /\ (report[t] = "uptodate" \/ <<run, t>> \in commits)
        \/ o = "Skipped" /\ report[t] = "empty"
        \/ o = "Failed" /\ t \in errlog}

\* C13: every run that is started ends; when the loop is left every table
\* of the list has exactly one outcome; and once the loop has reported a
\* table nothing more is issued for it and its report stays, until the
\* next run.
C13_TerminatesAndProcessesAll ==
    /\ [](pc = "connect1" => <>Ended)
    /\ [](\A t \in Configured :
            /\ Cardinality(Outcomes(t)) <= 1
            /\ (report[t] # "none" \/ pc \in {"finally", "done"})
               => Cardinality(Outcomes(t)) = 1)
    /\ [][pc # "done" =>
            \A t \in TableNames :
                report[t] # "none" =>
                    /\ report'[t] = report[t]
                    /\ stmts1'[t] = stmts1[t]
                    /\ stmts2'[t] = stmts2[t]]_vars

\* the run is over; the first table's hash failed on the destination and
\* its batch failed, and the second table was synchronized after it
C13_Witness ==
    /\ pc = "done"
    /\ sync_tables = <<"t1", "t1", "t2">>
    /\ "hash1" \in raised["t1"]
    /\ "t1" \in errlog
    /\ <<run, "t2">> \in commits

\* The batch read for t is one the destination has no reason to refuse:
\* its columns all exist in the destination and include the primary key,
\* its keys are distinct and its values of b are within bmax.
Upsertable(t) ==
    /\ dstCat[t].pk # <<>>
    /\ HasCol(srcCat[t].cols, dstCat[t].pk[1])
    /\ \A n \in 1 .. Len(srcCat[t].cols) : HasCol(dstCat[t].cols, srcCat[t].cols[n])
    /\ Unique(Project(srcCat[t].cols, srcRows[t], dstCat[t].pk))
    /\ HasCol(srcCat[t].cols, "b") =>
          \A n \in 1 .. Len(srcRows[t]) :
              srcRows[t][n][ColIndex(srcCat[t].cols, "b")] <= dstCat[t].bmax

\* For every incoming row the destination holds exactly one row with its
\* key, equal to it on the columns of the batch; every row the table held
\* before still has its previous values in the other columns.
UpsertResult(t) ==
    LET C == srcCat[t].cols
        D == dstCat[t].cols
        key == dstCat[t].pk[1]
        KeyOf(cols, r) == r[ColIndex(cols, key)]
    IN  /\ \A n \in 1 .. Len(srcRows[t]) :
              /\ Cardinality({m \in 1 .. Len(dstRows[t]) :
                      KeyOf(D, dstRows[t][m]) = KeyOf(C, srcRows[t][n])}) = 1
              /\ \A m \in 1 .. Len(dstRows[t]) :
                      KeyOf(D, dstRows[t][m]) = KeyOf(C, srcRows[t][n])
                      => \A p \in 1 .. Len(C) :
                            dstRows[t][m][ColIndex(D, C[p])] = srcRows[t][n][p]
        /\ \A n \in 1 .. Len(dst0[t]) :
              \E m \in 1 .. Len(dstRows[t]) :
                  /\ KeyOf(D, dstRows[t][m]) = KeyOf(D, dst0[t][n])
                  /\ \A p \in 1 .. Len(D) :
                        ~HasCol(C, D[p]) => dstRows[t][m][p] = dst0[t][n][p]

\* C14 as stated, on batches with distinct keys: once _insert_data has
\* returned for a batch the destination has no reason to refuse, over a
\* column set that contains the primary key, the key alone included, the
\* destination holds the upsert result.
C14_UpsertResult ==
    \A t \in Configured :
        (report[t] = "synced" /\ Upsertable(t)) => UpsertResult(t)

\* C15 as stated, for the table t1 of the scenario: every run leaves the
\* destination with exactly the source's rows; the second run, and every
\* run from the fourth on, issues nothing but the hash query on the
\* destination and leaves it unchanged; the third run, after the change,
\* issues the upsert and keeps every row that the source still holds.
C15_Scenario ==
    "t1" \in Configured =>
        /\ pc \in {"finally", "done"} =>
              /\ Range(dstRows["t1"]) = Range(srcRows["t1"])
              /\ Len(dstRows["t1"]) = Len(srcRows["t1"])
        /\ (run = 2 \/ run >= 4) =>
              /\ stmts1["t1"] \subseteq {"hash"}
              /\ dstRows["t1"] = dst0["t1"]
        /\ (run = 3 /\ pc \in {"finally", "done"}) =>
              /\ "upsert" \in stmts1["t1"]
              /\ \A n \in 1 .. Len(dst0["t1"]) :
                    dst0["t1"][n] \in Range(srcRows["t1"])
                    => dst0["t1"][n] \in Range(dstRows["t1"])

\* C16 as stated: a statement issued for a table raises only when that
\* table itself is at fault (missing on the side queried, or its own hash
\* query failed on the destination before its primary-key query), and
\* the hashes of a table that exists are those of the table queried on a
\* connection that has seen no failure.
C16_FailureIsolation ==
    \A t \in Configured :
        /\ "hash2" \in raised[t] => ~srcCat[t].exists
        /\ "select" \in raised[t] => ~srcCat[t].exists
        /\ "hash1" \in raised[t] => ~dstCat[t].exists
        /\ "pk" \in raised[t] => ~dstCat[t].exists
        /\ ("hash" \in stmts2[t] /\ srcCat[t].exists)
           => hashes_db2_origem[t] = GetTableHash("idle", TRUE, srcRows[t])
        /\ ("hash" \in stmts1[t] /\ dstCat[t].exists)
           => hashes_db1_destino[t] = GetTableHash("idle", TRUE, dst0[t])

\* C17 as stated: the hash query of a table is issued, on either
\* connection, only when every table before it in the list has been
\* compared and, where needed, read and written (has been reported).
C17_StrictlySequential ==
    \A n \in 1 .. Len(Keys(sync_tables)) :
        ("hash" \in stmts2[Keys(sync_tables)[n]] \cup stmts1[Keys(sync_tables)[n]])
        => \A m \in 1 .. n - 1 : report[Keys(sync_tables)[m]] # "none"

\* the two sequences hold the same rows the same number of times
SameRows(r, s) ==
    \A x \in Range(r) \cup Range(s) :
        Cardinality({n \in 1 .. Len(r) : r[n] = x})
            = Cardinality({n \in 1 .. Len(s) : s[n] = x})

\* C18 as stated, on the two sides of a table with the same columns: once
\* both hash queries have run without error, the digests are equal exactly
\* when the two tables hold the same multiset of rows.
C18_HashDeterminism ==
    \A t \in Configured :
        (/\ srcCat[t].exists
         /\ dstCat[t].exists
         /\ srcCat[t].cols = dstCat[t].cols
         /\ "hash" \in stmts2[t]
         /\ "hash" \in stmts1[t]
         /\ raised[t] \cap {"hash2", "hash1"} = {})
        => (hashes_db2_origem[t] = hashes_db1_destino[t]
                <=> SameRows(srcRows[t], dst0[t]))

\* C19: the only statements issued on the source connection are the hash
\* query and the row selection, for every table and outcome; nothing is
\* written or committed on it; and no step of a run changes the rows or
\* the catalog of a source table.
C19_SourceNeverModified ==
    /\ [](\A t \in TableNames : stmts2[t] \subseteq {"hash", "select"})
    /\ [][pc # "done" => srcRows' = srcRows /\ srcCat' = srcCat]_vars

\* the run is over and has committed a batch into the destination table,
\* which then differs from what it was; the source was hashed and read
C19_Witness ==
    /\ pc = "done"
    /\ <<run, "t1">> \in commits
    /\ dstRows["t1"] # dst0["t1"]
    /\ stmts2["t1"] = {"hash", "select"}
    /\ "commit" \in stmts1["t1"]

====
